---- MODULE Spec2Model ----
(***************************************************************************)
(* A model of enrich-github-url.py: the identifier parser                  *)
(* (process_single_url), the metadata fetcher (get_repo_info), the batch   *)
(* driver (process_multiple_urls), the CSV sink (write_to_csv) and the     *)
(* command line dispatch (main).                                           *)
(*                                                                         *)
(* A Python str is a sequence of tokens.  "/", " " and "." are the         *)
(* characters the program looks at (split("/"), strip(), split("."));      *)
(* any other token stands for a run of characters that are none of these.  *)
(***************************************************************************)
EXTENDS Integers, Sequences, FiniteSets, TLC

\* ------------------------------------------------------------------ bounds
MaxUrlLen == 4
MaxContentLen == 4
MaxLines == 3

UrlAlphabet == {"acme", "widget", "/", " "}
ContentAlphabet == {"Widget is a tool", " It does things", "."}

StringsOver(alphabet, n) == UNION {[1..k -> alphabet] : k \in 0..n}

\* ------------------------------------------------------- Python primitives
None == [none |-> TRUE]

\* str.strip(): drop leading and trailing whitespace
RECURSIVE LStrip(_)
LStrip(s) == IF s # <<>> /\ Head(s) = " " THEN LStrip(Tail(s)) ELSE s

RECURSIVE RStrip(_)
RStrip(s) ==
    IF s # <<>> /\ s[Len(s)] = " " THEN RStrip(SubSeq(s, 1, Len(s) - 1)) ELSE s

Strip(s) == RStrip(LStrip(s))

\* str.split(sep): the segments between occurrences of sep, empty ones kept;
\* always at least one segment
RECURSIVE Split(_, _)
Split(s, sep) ==
    IF s = <<>> THEN << <<>> >>
    ELSE LET rest == Split(Tail(s), sep)
         IN  IF Head(s) = sep
             THEN << <<>> >> \o rest
             ELSE << <<Head(s)>> \o Head(rest) >> \o Tail(rest)

\* truthiness of a str or a list
Truthy(v) == v # <<>>

\* An optional command line argument: argparse leaves it None when the flag
\* is absent.  `if args.x:` is false for None and for the empty string.
Unset == [set |-> FALSE, val |-> <<>>]
Given(v) == [set |-> TRUE, val |-> v]
ArgTruthy(a) == a.set /\ Truthy(a.val)

\* ------------------------------------------------------ the remote provider
\* A response: status 0 stands for requests.get raising (no response at all).
\* The body is an abstract JSON value: t is "obj", "list" or "invalid" (text
\* that response.json() cannot parse); keys are an object's keys, len a list's
\* length; text is the raw text of the body (used by the raw README fetch).
Resp(status, t, keys, len, text) ==
    [status |-> status, t |-> t, keys |-> keys, len |-> len, text |-> text]

NoResp == Resp(-1, "none", {}, 0, <<>>)
ConnErr == Resp(0, "none", {}, 0, <<>>)

CountKeys == {"stargazers_count", "watchers_count", "forks_count"}
RepoCounts ==
    [stargazers_count |-> "3", watchers_count |-> "2", forks_count |-> "1"]
CommitDate == "2024-01-01T00:00:00Z"
NoCommits == "No commits found"
NoReadme == <<"README not available">>

\* response.json()
JsonRaises(r) == r.t = "invalid"
\* dict.get(key, default) on the parsed body; raises when it is no dict
GetRaises(r) == r.t # "obj"
\* truthiness of the parsed body
BodyTruthy(r) == (r.t = "list" /\ r.len > 0) \/ (r.t = "obj" /\ r.keys # {})
\* body[0]['commit']['committer']['date'] raises unless body is a non-empty list
Index0Raises(r) == ~(r.t = "list" /\ r.len > 0)
\* body['download_url'] raises unless the key is there
UrlKeyRaises(r) == ~(r.t = "obj" /\ "download_url" \in r.keys)

\* line 34
FirstSentence(content) ==
    IF Truthy(content) THEN Split(content, ".")[1] \o <<".">> ELSE NoReadme

\* line 25
LastCommitDate(commits) ==
    IF BodyTruthy(commits) THEN CommitDate ELSE NoCommits

Count(meta, key) == IF key \in meta.keys THEN RepoCounts[key] ELSE "N/A"

\* lines 39-48
Record(owner, repo, first, last, meta) ==
    [url |-> <<"https://github.com/">> \o owner \o <<"/">> \o repo,
     owner |-> owner,
     repo |-> repo,
     first_sentence_of_readme |-> first,
     last_commit_date |-> last,
     stars |-> Count(meta, "stargazers_count"),
     watchers |-> Count(meta, "watchers_count"),
     forks |-> Count(meta, "forks_count")]

\* What one call of a function did: the value it returned, the diagnostics it
\* reported and the requests it sent, in order.
Outcome(result, diag, reqs) == [result |-> result, diag |-> diag, reqs |-> reqs]

\* get_repo_info(owner, repo) against the responses rs = [meta, commits,
\* readme, raw] the provider gives to its four requests.
GetRepoInfo(owner, repo, rs) ==
    LET caught(reqs) == Outcome(None, <<"ErrFetchInfo">>, reqs)
        r1 == <<"meta">>
        r2 == <<"meta", "commits">>
        r3 == <<"meta", "commits", "readme">>
        r4 == <<"meta", "commits", "readme", "raw">>
        done(first, reqs) ==
            IF GetRaises(rs.meta) THEN caught(reqs)
            ELSE Outcome(Record(owner, repo, first,
                                LastCommitDate(rs.commits), rs.meta),
                         <<>>, reqs)
    IN  IF rs.meta.status <= 0 \/ JsonRaises(rs.meta) THEN caught(r1)
        ELSE IF rs.meta.status # 200
        THEN IF GetRaises(rs.meta) THEN caught(r1)
             ELSE Outcome(None, <<"ErrFetchRepo">>, r1)
        ELSE IF rs.commits.status <= 0 \/ JsonRaises(rs.commits) THEN caught(r2)
        ELSE IF BodyTruthy(rs.commits) /\ Index0Raises(rs.commits) THEN caught(r2)
        ELSE IF rs.readme.status <= 0 THEN caught(r3)
        ELSE IF rs.readme.status # 200 THEN done(NoReadme, r3)
        ELSE IF JsonRaises(rs.readme) \/ UrlKeyRaises(rs.readme) THEN caught(r3)
        ELSE IF rs.raw.status <= 0 THEN caught(r4)
        ELSE done(FirstSentence(rs.raw.text), r4)

\* process_single_url(url)
ProcessSingleUrl(url, rs) ==
    LET parts == Split(Strip(url), "/")
    IN  IF Len(parts) < 2
        THEN [called |-> FALSE, owner |-> <<>>, repo |-> <<>>]
             @@ Outcome(None, <<"InvalidUrl">>, <<>>)
        ELSE [called |-> TRUE, owner |-> parts[Len(parts) - 1],
              repo |-> parts[Len(parts)]]
             @@ GetRepoInfo(parts[Len(parts) - 1], parts[Len(parts)], rs)

\* ------------------------------------------------- the simulated providers
Endpoints == {"meta", "commits", "readme", "raw"}

MetaOk == Resp(200, "obj", CountKeys \cup {"name"}, 0, <<>>)
MetaNoCounts == Resp(200, "obj", {"name"}, 0, <<>>)
MetaNotFound == Resp(404, "obj", {"message"}, 0, <<>>)
MetaNotFoundList == Resp(404, "list", {}, 0, <<>>)
MetaOkList == Resp(200, "list", {}, 1, <<>>)
MetaBadGateway == Resp(502, "invalid", {}, 0, <<>>)

CommitsOne == Resp(200, "list", {}, 1, <<>>)
CommitsEmpty == Resp(200, "list", {}, 0, <<>>)
CommitsEmptyRepo == Resp(409, "obj", {"message"}, 0, <<>>)
CommitsEmptyObj == Resp(200, "obj", {}, 0, <<>>)
CommitsInvalid == Resp(500, "invalid", {}, 0, <<>>)

ReadmeRef == Resp(200, "obj", {"download_url", "name"}, 0, <<>>)
ReadmeNoUrl == Resp(200, "obj", {"name"}, 0, <<>>)
ReadmeNotFound == Resp(404, "obj", {"message"}, 0, <<>>)
ReadmeInvalid == Resp(200, "invalid", {}, 0, <<>>)

Raw(status, text) == Resp(status, "text", {}, 0, text)

\* A provider: the responses it may give at each endpoint.
RichProvider ==
    [meta |-> {MetaOk, MetaNoCounts, MetaNotFound, MetaNotFoundList,
               MetaOkList, MetaBadGateway, ConnErr},
     commits |-> {CommitsOne, CommitsEmpty, CommitsEmptyRepo, CommitsEmptyObj,
                  CommitsInvalid, ConnErr},
     readme |-> {ReadmeRef, ReadmeNoUrl, ReadmeNotFound, ReadmeInvalid,
                 ConnErr},
     raw |-> {Raw(st, c) : st \in {200, 404},
                           c \in StringsOver(ContentAlphabet, MaxContentLen)}
             \cup {ConnErr}]

\* A provider with one way to succeed and two to fail: the metadata endpoint
\* answers 200, answers 404, or cannot be reached.
LeanProvider ==
    [meta |-> {MetaOk, MetaNotFound, ConnErr},
     commits |-> {CommitsOne},
     readme |-> {ReadmeNotFound},
     raw |-> {ConnErr}]

AllNoResp ==
    [meta |-> NoResp, commits |-> NoResp, readme |-> NoResp, raw |-> NoResp]

Range(f) == {f[x] : x \in DOMAIN f}

\* The ways a provider can answer one call of get_repo_info: a response for
\* each request the call sends, none for a request it never sends.
Behaviours(prov) ==
    {rs \in [meta : prov.meta, commits : prov.commits \cup {NoResp},
             readme : prov.readme \cup {NoResp}, raw : prov.raw \cup {NoResp}] :
        \A ep \in Endpoints :
            (rs[ep] = NoResp) <=> (ep \notin Range(GetRepoInfo(<<>>, <<>>, rs).reqs))}

\* the provider a run talks to, by name
Responses(name) == IF name = "rich" THEN RichProvider ELSE LeanProvider

\* The ways one call process_single_url(url) can go against a provider, each
\* with the responses it met.
Entries(url, prov) ==
    {e \in {[input |-> url, rs |-> rs] @@ ProcessSingleUrl(url, rs) :
                rs \in Behaviours(prov) \cup {AllNoResp}} :
        e.called <=> (e.rs # AllNoResp)}

\* -------------------------------------------------------------- the program
VARIABLES
    args,        \* the parsed command line: url, file, output
    fileExists,  \* os.path.exists(args.file)
    fileLines,   \* the lines of the batch file
    provider,    \* the simulated remote provider: "lean" or "rich"
    pc,          \* where main is
    i,           \* the batch loop's position in fileLines
    results,     \* the records collected
    log,         \* one entry per call of process_single_url
    out,         \* what was reported, in order
    csv,         \* the output destination
    modesRun     \* the input modes executed

vars == <<args, fileExists, fileLines, provider, pc, i, results, log, out, csv,
          modesRun>>

UrlPool ==
    {<<"https:", "/", "/", "example.com", "/", "acme", "/", "widget">>}

LinePool ==
    {<<" ">>, <<"acme">>, <<"acme", "/", "widget", " ">>,
     <<"widget", "/", "acme">>, <<"acme", "/">>}

OutputArgs == {Unset, Given(<<>>), Given(<<"out.csv">>)}

OldContent == << <<"previous content">> >>

Files(n) == UNION {[1..k -> LinePool] : k \in 0..n}

Said(kind) == [kind |-> kind, rec |-> None]

\* line 91
FieldNames ==
    <<"url", "owner", "repo", "first_sentence_of_readme", "last_commit_date",
      "stars", "watchers", "forks">>

Row(r) == [k \in 1..Len(FieldNames) |-> r[FieldNames[k]]]

\* The runs checked: every combination of the three flags; every url string
\* up to MaxUrlLen against the lean provider; a full example url against
\* the rich provider; and every batch file of up to MaxLines lines.
Init ==
    /\ \/ /\ args \in [url : {Unset, Given(<<>>), Given(<<"acme", "/", "widget">>)},
                       file : {Unset, Given(<<>>), Given(<<"urls.txt">>)},
                       output : OutputArgs]
          /\ fileExists = ArgTruthy(args.file)
          /\ fileLines = IF fileExists THEN << <<"widget", "/", "acme">> >>
                         ELSE <<>>
          /\ provider = "lean"
       \/ /\ args \in [url : {Given(s) : s \in StringsOver(UrlAlphabet, MaxUrlLen)},
                       file : {Unset}, output : OutputArgs]
          /\ fileExists = FALSE
          /\ fileLines = <<>>
          /\ provider = "lean"
       \/ /\ args \in [url : {Given(s) : s \in UrlPool}, file : {Unset},
                       output : {Unset, Given(<<"out.csv">>)}]
          /\ fileExists = FALSE
          /\ fileLines = <<>>
          /\ provider = "rich"
       \/ /\ args \in [url : {Unset}, file : {Given(<<"urls.txt">>)},
                       output : {Unset, Given(<<"out.csv">>)}]
          /\ fileExists \in BOOLEAN
          /\ fileLines \in (IF fileExists THEN Files(MaxLines) ELSE {<<>>})
          /\ provider = "lean"
    /\ pc = "main"
    /\ i = 0
    /\ results = <<>>
    /\ log = <<>>
    /\ out = <<>>
    /\ csv = [written |-> FALSE, rows |-> OldContent]
    /\ modesRun = {}

\* a driver that puts each new record in front of the ones it has
CollectInFront(rs, result) == IF result # None THEN <<result>> \o rs ELSE rs

\* lines 78-79 and 116-117
Collect(rs, result) == IF result # None THEN Append(rs, result) ELSE rs

Reported(e) == [k \in 1..Len(e.diag) |-> Said(e.diag[k])]

\* lines 113-117
MainSingle ==
    /\ pc = "main"
    /\ ArgTruthy(args.url)
    /\ \E e \in Entries(args.url.val, Responses(provider)) :
          /\ results' = Collect(results, e.result)
          /\ log' = Append(log, [line |-> 0] @@ e)
          /\ out' = out \o Reported(e)
    /\ modesRun' = modesRun \cup {"single"}
    /\ pc' = "output"
    /\ UNCHANGED <<args, fileExists, fileLines, provider, i, csv>>

\* lines 118-120 with 69-72 and 80-82
MainFile ==
    /\ pc = "main"
    /\ ~ArgTruthy(args.url)
    /\ ArgTruthy(args.file)
    /\ modesRun' = modesRun \cup {"batch"}
    /\ results' = <<>>
    /\ IF fileExists
       THEN /\ pc' = "batch"
            /\ i' = 1
            /\ out' = out
       ELSE /\ pc' = "output"
            /\ i' = i
            /\ out' = Append(out, Said("FileNotFound"))
    /\ UNCHANGED <<args, fileExists, fileLines, provider, log, csv>>

\* a driver that hands blank lines to the parser too
SkipNothing(cleaned) == FALSE

\* line 75
SkipLine(cleaned) == ~Truthy(cleaned)

\* a driver that stops reading the file at the first line that fails
BatchLineAbort ==
    /\ pc = "batch"
    /\ i <= Len(fileLines)
    /\ LET cleaned == Strip(fileLines[i])
       IN  IF SkipLine(cleaned)
           THEN /\ UNCHANGED <<results, log, out>>
                /\ i' = i + 1
           ELSE \E e \in Entries(cleaned, Responses(provider)) :
                   /\ results' = Collect(results, e.result)
                   /\ log' = Append(log, [line |-> i] @@ e)
                   /\ out' = out \o Reported(e)
                   /\ i' = IF e.result = None THEN Len(fileLines) + 1 ELSE i + 1
    /\ UNCHANGED <<args, fileExists, fileLines, provider, pc, csv, modesRun>>

\* lines 73-79: one iteration of the loop
BatchLine ==
    /\ pc = "batch"
    /\ i <= Len(fileLines)
    /\ LET cleaned == Strip(fileLines[i])
       IN  IF SkipLine(cleaned)
           THEN UNCHANGED <<results, log, out>>
           ELSE \E e \in Entries(cleaned, Responses(provider)) :
                   /\ results' = Collect(results, e.result)
                   /\ log' = Append(log, [line |-> i] @@ e)
                   /\ out' = out \o Reported(e)
    /\ i' = i + 1
    /\ UNCHANGED <<args, fileExists, fileLines, provider, pc, csv, modesRun>>

\* line 82
BatchReturn ==
    /\ pc = "batch"
    /\ i > Len(fileLines)
    /\ pc' = "output"
    /\ UNCHANGED <<args, fileExists, fileLines, provider, i, results, log, out,
                   csv, modesRun>>

\* a main that prints the usage hint and goes on to the output stage
MainUsageNoReturn ==
    /\ pc = "main"
    /\ ~ArgTruthy(args.url)
    /\ ~ArgTruthy(args.file)
    /\ out' = Append(out, Said("Usage"))
    /\ pc' = "output"
    /\ UNCHANGED <<args, fileExists, fileLines, provider, i, results, log, csv,
                   modesRun>>

\* lines 121-123
MainUsage ==
    /\ pc = "main"
    /\ ~ArgTruthy(args.url)
    /\ ~ArgTruthy(args.file)
    /\ out' = Append(out, Said("Usage"))
    /\ pc' = "done"
    /\ UNCHANGED <<args, fileExists, fileLines, provider, i, results, log, csv,
                   modesRun>>

\* a sink that opens the destination before it looks at the data
WriteToCsvAlways ==
    /\ pc = "output"
    /\ ArgTruthy(args.output)
    /\ csv' = [written |-> TRUE,
               rows |-> <<FieldNames>>
                        \o [k \in 1..Len(results) |-> Row(results[k])]]
    /\ out' = Append(out, Said(IF Truthy(results) THEN "Written" ELSE "NoData"))
    /\ pc' = "done"
    /\ UNCHANGED <<args, fileExists, fileLines, provider, i, results, log,
                   modesRun>>

\* lines 125-126 with write_to_csv, lines 85-96
WriteToCsv ==
    /\ pc = "output"
    /\ ArgTruthy(args.output)
    /\ IF ~Truthy(results)
       THEN /\ out' = Append(out, Said("NoData"))
            /\ csv' = csv
       ELSE /\ csv' = [written |-> TRUE,
                       rows |-> <<FieldNames>>
                                \o [k \in 1..Len(results) |-> Row(results[k])]]
            /\ out' = Append(out, Said("Written"))
    /\ pc' = "done"
    /\ UNCHANGED <<args, fileExists, fileLines, provider, i, results, log,
                   modesRun>>

\* lines 127-136
ConsoleOutput ==
    /\ pc = "output"
    /\ ~ArgTruthy(args.output)
    /\ out' = out \o [k \in 1..Len(results) |->
                         [kind |-> "Record", rec |-> results[k]]]
    /\ pc' = "done"
    /\ UNCHANGED <<args, fileExists, fileLines, provider, i, results, log, csv,
                   modesRun>>

Next ==
    \/ MainSingle
    \/ MainFile
    \/ BatchLine
    \/ BatchReturn
    \/ MainUsage
    \/ WriteToCsv
    \/ ConsoleOutput

Spec == Init /\ [][Next]_vars

\* ------------------------------------------------------------------ claims
IsNonEmpty(seg) == seg # <<>>
Segments(url) == Split(Strip(url), "/")
NonEmptySegments(url) == SelectSeq(Segments(url), IsNonEmpty)

DiagKinds == {"ErrFetchRepo", "ErrFetchInfo", "InvalidUrl", "FileNotFound", "NoData"}
IsDiagnostic(o) == o.kind \in DiagKinds
Diagnostics == SelectSeq(out, IsDiagnostic)

HasRecord(e) == e.result # None
Blank(line) == Strip(line) = <<>>

\* process_multiple_urls read the file and has returned
BatchReturned == "batch" \in modesRun /\ fileExists /\ pc \in {"output", "done"}

\* the log entry of line k of the batch file, if there is one
EntriesOf(k) == {j \in 1..Len(log) : log[j].line = k}

MetaSucceeded(e) == e.called /\ e.rs.meta.status = 200 /\ e.rs.meta.t = "obj"

\* the entry's processing failed: the parser rejected it, the metadata
\* endpoint answered non-success, or the fetch failed in any other way
Failed(e) == ~e.called \/ e.rs.meta.status # 200 \/ e.diag # <<>>

\* C1: in batch mode a line whose processing fails produces no record, every
\* later non-empty line is still processed, and the run reaches the end of the
\* file and returns the records collected.
C1_FailureIsolation ==
    BatchReturned =>
        /\ i = Len(fileLines) + 1
        /\ \A k \in 1..Len(fileLines) :
              ~Blank(fileLines[k]) => Cardinality(EntriesOf(k)) = 1
        /\ \A j \in 1..Len(log) : Failed(log[j]) => ~HasRecord(log[j])
        /\ Len(results) = Cardinality({j \in 1..Len(log) : ~Failed(log[j])})

\* a rejected line, then a line whose metadata request fails, then a line that
\* yields a record
C1_Witness ==
    /\ BatchReturned
    /\ Len(log) = 3
    /\ ~log[1].called
    /\ log[2].called /\ log[2].rs.meta.status # 200
    /\ HasRecord(log[3])
    /\ Len(results) = 1

FewerThanTwoNonEmpty(url) == Len(NonEmptySegments(url)) < 2

\* C2: an input with fewer than two non-empty "/"-delimited segments is
\* rejected by the parser: an invalid-identifier diagnostic, no request, no
\* record.
C2_ParserRejects ==
    \A j \in 1..Len(log) :
        FewerThanTwoNonEmpty(log[j].input) =>
            /\ ~log[j].called
            /\ log[j].diag = <<"InvalidUrl">>
            /\ log[j].reqs = <<>>
            /\ ~HasRecord(log[j])

\* the commit-list endpoint answered, with JSON, but not with a list of
\* commits: an empty list, or a non-success response carrying an error object
CommitsUnavailable(r) ==
    /\ r.status > 0
    /\ r.t \in {"list", "obj"}
    /\ ~(r.status = 200 /\ r.t = "list" /\ r.len > 0)

\* C3: once the metadata request has succeeded, an empty or unavailable commit
\* list never fails the fetch: a record is produced and its last_commit_date
\* is "No commits found".  (Entries whose README step is not reached or is
\* plainly absent, so that nothing but the commit list decides the outcome.)
C3_CommitDegradation ==
    \A j \in 1..Len(log) :
        (/\ MetaSucceeded(log[j])
         /\ CommitsUnavailable(log[j].rs.commits)
         /\ log[j].rs.readme \in {NoResp, ReadmeNotFound}) =>
            /\ HasRecord(log[j])
            /\ log[j].result.last_commit_date = NoCommits

\* the README step failed: the reference request answered non-success or
\* without a download_url, or the raw content request answered non-success
ReadmeStepFailed(rs) ==
    \/ rs.readme.status > 0 /\ rs.readme.status # 200
    \/ rs.readme.status = 200 /\ rs.readme.t = "obj"
       /\ "download_url" \notin rs.readme.keys
    \/ rs.raw.status > 0 /\ rs.raw.status # 200

\* C4: once the metadata request has succeeded, a failure of either README
\* step never fails the fetch: a record is produced and its
\* first_sentence_of_readme is "README not available".
C4_ReadmeDegradation ==
    \A j \in 1..Len(log) :
        (MetaSucceeded(log[j]) /\ ReadmeStepFailed(log[j].rs)) =>
            /\ HasRecord(log[j])
            /\ log[j].result.first_sentence_of_readme = NoReadme

Successes == SelectSeq(log, HasRecord)

\* C5: the list process_multiple_urls returns holds exactly one record for
\* each non-empty line that parsed and fetched successfully, duplicates
\* included, none for any other line, in the order of the lines.
C5_OrderAndMultiplicity ==
    BatchReturned =>
        /\ \A j \in 1..Len(log) :
              /\ log[j].line \in 1..Len(fileLines)
              /\ log[j].input = Strip(fileLines[log[j].line])
              /\ ~Blank(fileLines[log[j].line])
              /\ \A h \in 1..(j - 1) : log[h].line < log[j].line
        /\ \A k \in 1..Len(fileLines) :
              ~Blank(fileLines[k]) => EntriesOf(k) # {}
        /\ results = [k \in 1..Len(Successes) |-> Successes[k].result]

\* three records, the first and the third from the same line text
C5_Witness ==
    /\ BatchReturned
    /\ Len(results) = 3
    /\ results[1] = results[3]
    /\ results[1] # results[2]

\* C6: for an input with at least two non-empty segments the identifier passed
\* to the fetcher is the last two non-empty segments, in that order.
C6_ParserResult ==
    \A j \in 1..Len(log) :
        LET ne == NonEmptySegments(log[j].input)
        IN  Len(ne) >= 2 =>
                /\ log[j].called
                /\ log[j].owner = ne[Len(ne) - 1]
                /\ log[j].repo = ne[Len(ne)]

\* a line the parser rejects: no "/" in it, so fewer than two segments
Malformed(line) == ~Blank(line) /\ Len(Segments(line)) < 2
WellFormed(line) == Len(NonEmptySegments(line)) >= 2

\* a finished batch run over 3 lines: one blank, one malformed, one well-formed
\* whose fetch succeeded
C7_Case ==
    /\ BatchReturned
    /\ pc = "done"
    /\ Len(fileLines) = 3
    /\ \E b, m, w \in 1..3 :
          /\ {b, m, w} = 1..3
          /\ Blank(fileLines[b])
          /\ Malformed(fileLines[m])
          /\ WellFormed(fileLines[w])
          /\ \E j \in EntriesOf(w) : HasRecord(log[j])

\* C7 as stated: such a run produces exactly one record and reports exactly
\* two diagnostics.
C7_TwoDiagnostics == C7_Case => Len(results) = 1 /\ Len(Diagnostics) = 2

\* C7, amended: such a run produces exactly one record and reports exactly one
\* diagnostic, the invalid-identifier one of the malformed line; the blank line
\* is skipped without a report.
C7_OneDiagnostic ==
    C7_Case => Len(results) = 1 /\ Diagnostics = <<Said("InvalidUrl")>>

C7_Witness == C7_Case /\ Blank(fileLines[2]) /\ Malformed(fileLines[1])

\* the content up to and including its first period
UpToFirstPeriod(content, first) ==
    \E n \in 1..Len(content) :
        /\ content[n] = "."
        /\ \A m \in 1..(n - 1) : content[m] # "."
        /\ first = SubSeq(content, 1, n)

\* C8: for a README content that was fetched successfully,
\* first_sentence_of_readme is "README not available" when the content is
\* empty, and otherwise the prefix of the content that ends with its first
\* period.
C8_FirstSentence ==
    \A j \in 1..Len(log) :
        (HasRecord(log[j]) /\ log[j].rs.raw.status = 200) =>
            LET content == log[j].rs.raw.text
                first == log[j].result.first_sentence_of_readme
            IN  IF content = <<>> THEN first = NoReadme
                ELSE UpToFirstPeriod(content, first)

Untouched == csv = [written |-> FALSE, rows |-> OldContent]
Header ==
    <<"url", "owner", "repo", "first_sentence_of_readme", "last_commit_date",
      "stars", "watchers", "forks">>
RowOf(r) ==
    <<r.url, r.owner, r.repo, r.first_sentence_of_readme, r.last_commit_date,
      r.stars, r.watchers, r.forks>>
Table == <<Header>> \o [k \in 1..Len(results) |-> RowOf(results[k])]
ReportedKind(kind) == \E k \in 1..Len(out) : out[k].kind = kind

\* C9 as stated: with an output destination configured, the destination is
\* written iff at least one record was collected; when written it holds the
\* header and one row per record in collection order; when no record was
\* collected "No data to write." is reported and the destination is untouched.
C9_OutputSink ==
    (pc = "done" /\ ArgTruthy(args.output)) =>
        /\ csv.written <=> results # <<>>
        /\ csv.written => csv.rows = Table
        /\ results = <<>> => ReportedKind("NoData") /\ Untouched

\* C9, amended: as stated for a run that selected an input mode (--url or
\* --file); a run that selected none never reaches the sink: the destination
\* is untouched and "No data to write." is not reported.
C9_OutputSinkWhenModeRan ==
    (pc = "done" /\ ArgTruthy(args.output)) =>
        /\ csv.written <=> results # <<>>
        /\ csv.written => csv.rows = Table
        /\ results = <<>> => (ReportedKind("NoData") <=> modesRun # {}) /\ Untouched

\* a destination written with a header and two different rows
C9_Witness ==
    /\ pc = "done"
    /\ csv.written
    /\ Len(csv.rows) = 3
    /\ csv.rows[1] = Header
    /\ csv.rows[2] # csv.rows[3]
    /\ csv.rows[2][2] = results[1].owner

\* C10: at most one input mode is executed in a run, whatever flags are given,
\* and a run given neither --url nor --file prints the usage hint and exits:
\* nothing is processed, no request is sent, nothing is written or printed
\* besides the hint, even with --output.
C10_ModeSelection ==
    /\ Cardinality(modesRun) <= 1
    /\ (~args.url.set /\ ~args.file.set /\ pc = "done") =>
          /\ modesRun = {}
          /\ out = <<Said("Usage")>>
          /\ log = <<>>
          /\ results = <<>>
          /\ Untouched

C10_Witness ==
    /\ pc = "done"
    /\ ~args.url.set
    /\ ~args.file.set
    /\ ArgTruthy(args.output)
    /\ out = <<Said("Usage")>>

====
